---------------------------- MODULE Spec2Model ----------------------------
(***************************************************************************)
(* The two command line tools of the repository:                           *)
(*   apps/whois/main.c  sends Who-Is, collects the I-Am answers in         *)
(*                      Address_Table and prints the table;                *)
(*   apps/iam/main.c    sends I-Am, optionally repeatedly.                 *)
(* One run of one tool is one behaviour.  pc is the position in main().    *)
(* The stack below the tools (datalink, npdu/apdu dispatch, mstimer,       *)
(* bacnet_address_same) is not part of the two files; it is modelled by    *)
(* its interface.                                                          *)
(***************************************************************************)
EXTENDS Integers, Sequences, FiniteSets, TLC

VARIABLES
    pc,              \* position in main()
    args,            \* the command line of the run (never changes after start)
    dest,            \* BACNET_ADDRESS dest
    specific,        \* whois: ~global_broadcast; iam: specific_address
    repeat_forever,
    retry_count,
    Error_Detected,
    Address_Table,   \* whois: the linked list first..last, as a sequence
    pdu_len,         \* result of the last datalink_receive
    Rx_Buf,          \* frame held by the receive buffer
    apdu_timer,      \* ticks elapsed since the apdu timer was (re)started
    datalink_timer,  \* ticks elapsed since the datalink timer was (re)started
    sends,           \* history: calls of Send_WhoIs_To_Network / Send_I_Am_To_Network
    quiet,           \* history: every datalink_receive so far returned 0
    report,          \* whois: output of print_address_cache, NoReport before
    exit_code,       \* value returned by main, -1 while running
    ticked,          \* history: datalink_maintenance_timer ran in this iteration
    since_send,      \* history: ticks elapsed since the last send
    sent_to          \* history: the destinations handed to the send calls

vars == <<pc, args, dest, specific, repeat_forever, retry_count, Error_Detected,
          Address_Table, pdu_len, Rx_Buf, apdu_timer, datalink_timer, sends,
          quiet, report, exit_code, ticked, since_send, sent_to>>

---------------------------------------------------------------------------
(* Bounds of the model *)

\* largest --retry value tried
MaxRetry == 3
\* the send counter stops the run here (only --repeat runs get that far)
MaxSends == 5
\* --delay, the longest wait of one datalink_receive, in clock ticks
DelayTicks == 2
\* --timeout, the request timer period, in clock ticks
ApduTicks == 3
\* the maintenance timer period (1000 ms), in clock ticks
DatalinkTicks == 2

---------------------------------------------------------------------------
(* Program constants *)

BAC_ADDRESS_MULT == 1
BACNET_BROADCAST_NETWORK == 65535
BACNET_MAX_INSTANCE == 4194303

---------------------------------------------------------------------------
(* Addresses *)

NoMac == << >>

Addr(net, mac, adr) == [net |-> net, mac |-> mac, adr |-> adr]

\* BACNET_ADDRESS x = { 0 }
ZeroAddress == Addr(0, NoMac, NoMac)

\* two stations: same mac, different network number and sub-address
AddrA == Addr(0, <<1>>, NoMac)
AddrB == Addr(5, <<1>>, <<7>>)

\* equality of network number, mac and sub-address
bacnet_address_same(a, b) ==
    /\ a.net = b.net
    /\ Len(a.mac) = Len(b.mac)
    /\ \A i \in 1..Len(a.mac) : a.mac[i] = b.mac[i]
    /\ Len(a.adr) = Len(b.adr)
    /\ \A i \in 1..Len(a.adr) : a.adr[i] = b.adr[i]

\* whois: the broadcast destination of the datalink
datalink_get_broadcast_address == Addr(BACNET_BROADCAST_NETWORK, NoMac, NoMac)

\* bug variant: the lower end of the range is not tested
ValidNet_no_lower(dnet) == dnet <= BACNET_BROADCAST_NETWORK

\* bug variant: the upper end of the range is not tested
ValidNet_no_upper(dnet) == dnet >= 0

ValidNet(dnet) == (dnet >= 0) /\ (dnet <= BACNET_BROADCAST_NETWORK)

\* bug variant: the last branch keeps --dadr
ResolveSpecific_keep_adr(mac, dnet, adr) ==
    IF Len(adr) # 0 /\ Len(mac) # 0
    THEN Addr(IF ValidNet(dnet) THEN dnet ELSE BACNET_BROADCAST_NETWORK, mac, adr)
    ELSE IF Len(mac) # 0
    THEN Addr(IF ValidNet(dnet) THEN dnet ELSE 0, mac, NoMac)
    ELSE Addr(IF ValidNet(dnet) THEN dnet ELSE BACNET_BROADCAST_NETWORK, NoMac, adr)

\* bug variant: the test of --mac alone comes first, so --dadr is never used
ResolveSpecific_mac_first(mac, dnet, adr) ==
    IF Len(mac) # 0
    THEN Addr(IF ValidNet(dnet) THEN dnet ELSE 0, mac, NoMac)
    ELSE Addr(IF ValidNet(dnet) THEN dnet ELSE BACNET_BROADCAST_NETWORK, NoMac, NoMac)

\* the if / else if / else that fills dest from --mac, --dnet, --dadr
ResolveSpecific(mac, dnet, adr) ==
    IF Len(adr) # 0 /\ Len(mac) # 0
    THEN Addr(IF ValidNet(dnet) THEN dnet ELSE BACNET_BROADCAST_NETWORK, mac, adr)
    ELSE IF Len(mac) # 0
    THEN Addr(IF ValidNet(dnet) THEN dnet ELSE 0, mac, NoMac)
    ELSE Addr(IF ValidNet(dnet) THEN dnet ELSE BACNET_BROADCAST_NETWORK, NoMac, NoMac)

\* set by the --mac, --dnet, --dadr branches of the argument loop
SpecificRequested(mac, dnet, adr) ==
    Len(mac) # 0 \/ ValidNet(dnet) \/ Len(adr) # 0

WhoIs_Resolve(mac, dnet, adr) ==
    IF ~SpecificRequested(mac, dnet, adr)
    THEN datalink_get_broadcast_address
    ELSE ResolveSpecific(mac, dnet, adr)

IAm_Resolve(mac, dnet, adr) ==
    IF SpecificRequested(mac, dnet, adr)
    THEN ResolveSpecific(mac, dnet, adr)
    ELSE ZeroAddress

---------------------------------------------------------------------------
(* Address_Table *)

Entry(flags, device_id, max_apdu, address) ==
    [Flags |-> flags, device_id |-> device_id, max_apdu |-> max_apdu,
     address |-> address]

\* x |= BAC_ADDRESS_MULT on the one flag bit in use
SetMult(flags) == IF flags = BAC_ADDRESS_MULT THEN flags ELSE BAC_ADDRESS_MULT

\* bug variant: the new entry is linked in front of Address_Table.first
alloc_head(tab) == <<Entry(0, 0, 0, ZeroAddress)>> \o tab

\* calloc'ed entry linked behind Address_Table.last
alloc_address_entry(tab) == Append(tab, Entry(0, 0, 0, ZeroAddress))

\* bug variant: the flag is set outside the device_id test
RECURSIVE ScanTable_flag_all(_, _, _, _, _)
ScanTable_flag_all(tab, i, device_id, src, flags) ==
    IF i > Len(tab)
    THEN [found |-> FALSE, tab |-> tab, flags |-> flags]
    ELSE IF tab[i].device_id = device_id
            /\ bacnet_address_same(tab[i].address, src)
    THEN [found |-> TRUE, tab |-> tab, flags |-> flags]
    ELSE ScanTable_flag_all([tab EXCEPT ![i].Flags = SetMult(@)], i + 1,
                            device_id, src, SetMult(flags))

\* the while loop of address_table_add from entry i on: flags every entry of
\* the same device_id it passes, and stops at an entry with the same address
RECURSIVE ScanTable(_, _, _, _, _)
ScanTable(tab, i, device_id, src, flags) ==
    IF i > Len(tab)
    THEN [found |-> FALSE, tab |-> tab, flags |-> flags]
    ELSE IF tab[i].device_id = device_id
    THEN IF bacnet_address_same(tab[i].address, src)
         THEN [found |-> TRUE, tab |-> tab, flags |-> flags]
         ELSE ScanTable([tab EXCEPT ![i].Flags = SetMult(@)], i + 1,
                        device_id, src, SetMult(flags))
    ELSE ScanTable(tab, i + 1, device_id, src, flags)

FillLast(tab, flags, device_id, max_apdu, src) ==
    [tab EXCEPT ![Len(tab)] = Entry(flags, device_id, max_apdu, src)]

\* bug variant: the scan never returns early
add_no_return(tab, device_id, max_apdu, src) ==
    LET r == ScanTable(tab, 1, device_id, src, 0)
    IN  FillLast(alloc_address_entry(r.tab), r.flags, device_id, max_apdu, src)

\* bug variant: only the new entry is flagged
add_flag_new_only(tab, device_id, max_apdu, src) ==
    LET r == ScanTable(tab, 1, device_id, src, 0)
    IN  IF r.found THEN tab
        ELSE FillLast(alloc_address_entry(tab), r.flags, device_id, max_apdu, src)

\* bug variant: the new entry does not get the flags of the scan
add_flag_old_only(tab, device_id, max_apdu, src) ==
    LET r == ScanTable(tab, 1, device_id, src, 0)
    IN  IF r.found
        THEN r.tab
        ELSE FillLast(alloc_address_entry(r.tab), 0, device_id, max_apdu, src)

\* bug variant: a known pair gets its max_apdu refreshed
add_refresh(tab, device_id, max_apdu, src) ==
    LET r == ScanTable(tab, 1, device_id, src, 0)
    IN  IF r.found
        THEN [i \in 1..Len(tab) |->
                IF tab[i].device_id = device_id
                   /\ bacnet_address_same(tab[i].address, src)
                THEN [tab[i] EXCEPT !.max_apdu = max_apdu] ELSE r.tab[i]]
        ELSE FillLast(alloc_address_entry(r.tab), r.flags, device_id, max_apdu, src)

address_table_add(tab, device_id, max_apdu, src) ==
    LET r == ScanTable(tab, 1, device_id, src, 0)
    IN  IF r.found
        THEN r.tab
        ELSE FillLast(alloc_address_entry(r.tab), r.flags, device_id, max_apdu, src)

---------------------------------------------------------------------------
(* Frames and their dispatch *)

Frame(kind, decodes, device_id, max_apdu, src) ==
    [kind |-> kind, decodes |-> decodes, device_id |-> device_id,
     max_apdu |-> max_apdu, src |-> src]

\* static uint8_t Rx_Buf[MAX_MPDU] = { 0 }
NoFrame == Frame("none", FALSE, 0, 0, ZeroAddress)

IAmFrame(device_id, max_apdu, src) == Frame("iam", TRUE, device_id, max_apdu, src)
BadIAmFrame == Frame("iam", FALSE, 0, 0, AddrA)
AbortFrame == Frame("abort", FALSE, 0, 0, AddrA)
RejectFrame == Frame("reject", FALSE, 0, 0, AddrB)

\* bug variant: the result of the decoding is not looked at
my_i_am_handler_no_check(tab, f) ==
    address_table_add(tab, f.device_id, f.max_apdu, f.src)

\* whois my_i_am_handler: the table after the handler
my_i_am_handler(tab, f) ==
    IF f.decodes
    THEN address_table_add(tab, f.device_id, f.max_apdu, f.src)
    ELSE tab

\* MyAbortHandler, MyRejectHandler
ErrorAfter(err, f) == err \/ f.kind \in {"abort", "reject"}

\* whois: npdu_handler with the handlers init_service_handlers registers
WhoIs_TableAfter(tab, f) == IF f.kind = "iam" THEN my_i_am_handler(tab, f) ELSE tab

---------------------------------------------------------------------------
(* Command lines *)

Cmd(tool, mac, dnet, adr, repeat, retry, pos) ==
    [tool |-> tool, mac |-> mac, dnet |-> dnet, adr |-> adr,
     repeat |-> repeat, retry |-> retry, pos |-> pos]

NoCmd == Cmd("none", NoMac, -1, NoMac, FALSE, 0, << >>)

Tools == {"whois", "iam"}

\* bug variant: a negative --retry is taken as it is
ClampRetry_none(n) == n

\* long retry_count after "if (retry_count < 0) retry_count = 0"
ClampRetry(n) == IF n < 0 THEN 0 ELSE n

\* positional arguments the tool accepts before print_usage / return 1
MaxPositional(tool) == IF tool = "whois" THEN 2 ELSE 4

\* whois: Target_Object_Instance_Min / _Max > BACNET_MAX_INSTANCE
InstanceTooLarge(c) ==
    /\ c.tool = "whois"
    /\ \E i \in 1..Len(c.pos) : i <= 2 /\ c.pos[i] > BACNET_MAX_INSTANCE

UsageError(c) == Len(c.pos) > MaxPositional(c.tool)

---------------------------------------------------------------------------
(* Initial state: the statics of both files, main() not yet entered *)

NoReport ==
    [printed |-> FALSE, rows |-> << >>, total |-> 0, dup |-> 0,
     dup_line |-> FALSE]

Init ==
    /\ pc = "start"
    /\ args = NoCmd
    /\ dest = ZeroAddress
    /\ specific = FALSE
    /\ repeat_forever = FALSE
    /\ retry_count = 0
    /\ Error_Detected = FALSE
    /\ Address_Table = << >>
    /\ pdu_len = 0
    /\ Rx_Buf = NoFrame
    /\ apdu_timer = 0
    /\ datalink_timer = 0
    /\ sends = 0
    /\ quiet = TRUE
    /\ report = NoReport
    /\ exit_code = -1
    /\ ticked = FALSE
    /\ since_send = 0
    /\ sent_to = {}

---------------------------------------------------------------------------
(* main() up to the first send: argument loop, destination, initialisation *)

\* bug variant: the positional arguments are counted after the first send
Start_late_check(Cmds) ==
    /\ pc = "start"
    /\ \E c \in Cmds :
        /\ args' = c
        /\ specific' = SpecificRequested(c.mac, c.dnet, c.adr)
        /\ dest' = IF c.tool = "whois"
                   THEN WhoIs_Resolve(c.mac, c.dnet, c.adr)
                   ELSE IAm_Resolve(c.mac, c.dnet, c.adr)
        /\ repeat_forever' = c.repeat
        /\ retry_count' = ClampRetry(c.retry)
        /\ IF UsageError(c) \/ InstanceTooLarge(c)
           THEN /\ pc' = "exit"
                /\ exit_code' = 1
                /\ sends' = sends + 1
                /\ sent_to' = sent_to \cup {dest'}
           ELSE /\ pc' = IF c.tool = "whois" THEN "whois_send" ELSE "iam_send"
                /\ exit_code' = exit_code
                /\ UNCHANGED <<sends, sent_to>>
    /\ UNCHANGED <<Error_Detected, Address_Table, pdu_len, Rx_Buf, apdu_timer,
                   datalink_timer, quiet, report, ticked, since_send>>

Start(Cmds) ==
    /\ pc = "start"
    /\ \E c \in Cmds :
        /\ args' = c
        /\ IF UsageError(c) \/ InstanceTooLarge(c)
           THEN /\ pc' = "exit"
                /\ exit_code' = 1
                /\ UNCHANGED <<dest, specific, repeat_forever, retry_count>>
           ELSE /\ pc' = IF c.tool = "whois" THEN "whois_send" ELSE "iam_send"
                /\ exit_code' = exit_code
                /\ specific' = SpecificRequested(c.mac, c.dnet, c.adr)
                /\ dest' = IF c.tool = "whois"
                           THEN WhoIs_Resolve(c.mac, c.dnet, c.adr)
                           ELSE IAm_Resolve(c.mac, c.dnet, c.adr)
                /\ repeat_forever' = c.repeat
                /\ retry_count' = ClampRetry(c.retry)
    /\ UNCHANGED <<Error_Detected, Address_Table, pdu_len, Rx_Buf, apdu_timer,
                   datalink_timer, sends, quiet, report,
                   ticked, since_send, sent_to>>

---------------------------------------------------------------------------
(* Timers: elapsed ticks against a period *)

mstimer_expired(elapsed, interval) == elapsed >= interval

\* the next period starts where the last one ended
mstimer_reset(elapsed, interval) == elapsed - interval

\* if (retry_count > 0) retry_count--
DecRetry(n) == IF n > 0 THEN n - 1 ELSE n

---------------------------------------------------------------------------
(* whois main(): first send and the for (;;) loop *)

\* bug variant: the first send does not count against retry_count
WhoIs_FirstSend_keep_retry ==
    /\ pc = "whois_send"
    /\ sends < MaxSends
    /\ apdu_timer' = 0
    /\ datalink_timer' = 0
    /\ sends' = sends + 1
    /\ since_send' = 0
    /\ sent_to' = sent_to \cup {dest}
    /\ retry_count' = retry_count
    /\ pc' = "whois_recv"
    /\ UNCHANGED <<args, dest, specific, repeat_forever, Error_Detected,
                   Address_Table, pdu_len, Rx_Buf, quiet, report, exit_code,
                   ticked>>

\* mstimer_set x 2, Send_WhoIs_To_Network, retry_count--
WhoIs_FirstSend ==
    /\ pc = "whois_send"
    /\ sends < MaxSends
    /\ apdu_timer' = 0
    /\ datalink_timer' = 0
    /\ sends' = sends + 1
    /\ since_send' = 0
    /\ sent_to' = sent_to \cup {dest}
    /\ retry_count' = DecRetry(retry_count)
    /\ pc' = "whois_recv"
    /\ UNCHANGED <<args, dest, specific, repeat_forever, Error_Detected,
                   Address_Table, pdu_len, Rx_Buf, quiet, report, exit_code,
                   ticked>>

\* the clock moves on by dt ticks under both timers
Elapse(dt) ==
    /\ apdu_timer' = apdu_timer + dt
    /\ datalink_timer' = datalink_timer + dt
    /\ since_send' = since_send + dt

\* bug variant: datalink_receive is handed &dest, not &src
WhoIs_Receive_into_dest(Frames) ==
    /\ pc = "whois_recv"
    /\ \/ /\ pdu_len' = 0
          /\ Rx_Buf' \in Frames \cup {NoFrame}
          /\ Elapse(DelayTicks)
          /\ quiet' = quiet
          /\ dest' = dest
       \/ /\ pdu_len' = 1
          /\ Rx_Buf' \in Frames
          /\ \E dt \in 0..DelayTicks : Elapse(dt)
          /\ quiet' = FALSE
          /\ dest' = Rx_Buf'.src
    /\ ticked' = FALSE
    /\ pc' = "whois_handle"
    /\ UNCHANGED <<args, specific, repeat_forever, retry_count,
                   Error_Detected, Address_Table, sends, report, exit_code,
                   sent_to>>

\* the head of the for (;;) body: datalink_receive(&src, Rx_Buf, MAX_MPDU,
\* delay_milliseconds).  Either the whole delay passes and the length is 0,
\* whatever the buffer then holds, or a frame of the network arrives within
\* the delay
WhoIs_Receive(Frames) ==
    /\ pc = "whois_recv"
    /\ \/ /\ pdu_len' = 0
          /\ Rx_Buf' \in Frames \cup {NoFrame}
          /\ Elapse(DelayTicks)
          /\ quiet' = quiet
       \/ /\ pdu_len' = 1
          /\ Rx_Buf' \in Frames
          /\ \E dt \in 0..DelayTicks : Elapse(dt)
          /\ quiet' = FALSE
    /\ ticked' = FALSE
    /\ pc' = "whois_handle"
    /\ UNCHANGED <<args, dest, specific, repeat_forever, retry_count,
                   Error_Detected, Address_Table, sends, report, exit_code,
                   sent_to>>

\* bug variant: the buffer is dispatched whatever the length
WhoIs_Dispatch_unguarded ==
    /\ pc = "whois_handle"
    /\ Address_Table' = WhoIs_TableAfter(Address_Table, Rx_Buf)
    /\ Error_Detected' = ErrorAfter(Error_Detected, Rx_Buf)
    /\ pc' = "whois_errchk"
    /\ UNCHANGED <<args, dest, specific, repeat_forever, retry_count, pdu_len,
                   Rx_Buf, apdu_timer, datalink_timer, sends, quiet, report,
                   exit_code,
                   ticked, since_send, sent_to>>

\* bug variant: a frame is not dispatched once the request timer has expired
WhoIs_Dispatch_unless_expired ==
    /\ pc = "whois_handle"
    /\ IF pdu_len # 0 /\ ~mstimer_expired(apdu_timer, ApduTicks)
       THEN /\ Address_Table' = WhoIs_TableAfter(Address_Table, Rx_Buf)
            /\ Error_Detected' = ErrorAfter(Error_Detected, Rx_Buf)
       ELSE UNCHANGED <<Address_Table, Error_Detected>>
    /\ pc' = "whois_errchk"
    /\ UNCHANGED <<args, dest, specific, repeat_forever, retry_count, pdu_len,
                   Rx_Buf, apdu_timer, datalink_timer, sends, quiet, report,
                   exit_code,
                   ticked, since_send, sent_to>>

\* if (pdu_len) npdu_handler(&src, Rx_Buf, pdu_len)
WhoIs_Dispatch ==
    /\ pc = "whois_handle"
    /\ IF pdu_len # 0
       THEN /\ Address_Table' = WhoIs_TableAfter(Address_Table, Rx_Buf)
            /\ Error_Detected' = ErrorAfter(Error_Detected, Rx_Buf)
       ELSE UNCHANGED <<Address_Table, Error_Detected>>
    /\ pc' = "whois_errchk"
    /\ UNCHANGED <<args, dest, specific, repeat_forever, retry_count, pdu_len,
                   Rx_Buf, apdu_timer, datalink_timer, sends, quiet, report,
                   exit_code,
                   ticked, since_send, sent_to>>

\* bug variant: the error flag ends main() at once, without the report
WhoIs_ErrorCheck_return ==
    /\ pc = "whois_errchk"
    /\ IF Error_Detected
       THEN /\ pc' = "exit"
            /\ exit_code' = 0
       ELSE /\ pc' = "whois_dltimer"
            /\ exit_code' = exit_code
    /\ UNCHANGED <<args, dest, specific, repeat_forever, retry_count,
                   Error_Detected, Address_Table, pdu_len, Rx_Buf, apdu_timer,
                   datalink_timer, sends, quiet, report,
                   ticked, since_send, sent_to>>

\* bug variant: the error flag does not end the loop
WhoIs_ErrorCheck_no_break ==
    /\ pc = "whois_errchk"
    /\ pc' = "whois_dltimer"
    /\ UNCHANGED <<args, dest, specific, repeat_forever, retry_count,
                   Error_Detected, Address_Table, pdu_len, Rx_Buf, apdu_timer,
                   datalink_timer, sends, quiet, report, exit_code,
                   ticked, since_send, sent_to>>

\* if (Error_Detected) break
WhoIs_ErrorCheck ==
    /\ pc = "whois_errchk"
    /\ pc' = IF Error_Detected THEN "whois_print" ELSE "whois_dltimer"
    /\ UNCHANGED <<args, dest, specific, repeat_forever, retry_count,
                   Error_Detected, Address_Table, pdu_len, Rx_Buf, apdu_timer,
                   datalink_timer, sends, quiet, report, exit_code,
                   ticked, since_send, sent_to>>

\* bug variant: no maintenance tick in an iteration where the request timer
\* has expired
WhoIs_MaintenanceTimer_unless_apdu ==
    /\ pc = "whois_dltimer"
    /\ IF /\ mstimer_expired(datalink_timer, DatalinkTicks)
          /\ ~mstimer_expired(apdu_timer, ApduTicks)
       THEN /\ ticked' = TRUE
            /\ datalink_timer' = mstimer_reset(datalink_timer, DatalinkTicks)
       ELSE UNCHANGED <<ticked, datalink_timer>>
    /\ pc' = "whois_apdutimer"
    /\ UNCHANGED <<args, dest, specific, repeat_forever, retry_count,
                   Error_Detected, Address_Table, pdu_len, Rx_Buf, apdu_timer,
                   sends, quiet, report, exit_code, since_send, sent_to>>

\* if (mstimer_expired(&datalink_timer)) { datalink_maintenance_timer; reset }
WhoIs_MaintenanceTimer ==
    /\ pc = "whois_dltimer"
    /\ IF mstimer_expired(datalink_timer, DatalinkTicks)
       THEN /\ ticked' = TRUE
            /\ datalink_timer' = mstimer_reset(datalink_timer, DatalinkTicks)
       ELSE UNCHANGED <<ticked, datalink_timer>>
    /\ pc' = "whois_apdutimer"
    /\ UNCHANGED <<args, dest, specific, repeat_forever, retry_count,
                   Error_Detected, Address_Table, pdu_len, Rx_Buf, apdu_timer,
                   sends, quiet, report, exit_code, since_send, sent_to>>

\* bug variant: the request timer is not reset after a resend
WhoIs_RequestTimer_no_reset ==
    /\ pc = "whois_apdutimer"
    /\ IF mstimer_expired(apdu_timer, ApduTicks)
       THEN IF repeat_forever \/ retry_count # 0
            THEN /\ sends < MaxSends
                 /\ sends' = sends + 1
                 /\ since_send' = 0
                 /\ sent_to' = sent_to \cup {dest}
                 /\ retry_count' = DecRetry(retry_count)
                 /\ pc' = "whois_recv"
            ELSE /\ pc' = "whois_print"
                 /\ UNCHANGED <<sends, retry_count, since_send, sent_to>>
       ELSE /\ pc' = "whois_recv"
            /\ UNCHANGED <<sends, retry_count, since_send, sent_to>>
    /\ UNCHANGED <<args, dest, specific, repeat_forever, Error_Detected,
                   Address_Table, pdu_len, Rx_Buf, apdu_timer, datalink_timer,
                   quiet, report, exit_code, ticked>>

\* bug variant: a resend does not count against retry_count
WhoIs_RequestTimer_keep_retry ==
    /\ pc = "whois_apdutimer"
    /\ IF mstimer_expired(apdu_timer, ApduTicks)
       THEN IF repeat_forever \/ retry_count # 0
            THEN /\ sends < MaxSends
                 /\ sends' = sends + 1
                 /\ since_send' = 0
                 /\ sent_to' = sent_to \cup {dest}
                 /\ apdu_timer' = mstimer_reset(apdu_timer, ApduTicks)
                 /\ pc' = "whois_recv"
            ELSE /\ pc' = "whois_print"
                 /\ UNCHANGED <<sends, apdu_timer, since_send, sent_to>>
       ELSE /\ pc' = "whois_recv"
            /\ UNCHANGED <<sends, apdu_timer, since_send, sent_to>>
    /\ UNCHANGED <<args, dest, specific, repeat_forever, retry_count,
                   Error_Detected, Address_Table, pdu_len, Rx_Buf,
                   datalink_timer, quiet, report, exit_code, ticked>>

\* if (mstimer_expired(&apdu_timer)) { resend or break; mstimer_reset }
WhoIs_RequestTimer ==
    /\ pc = "whois_apdutimer"
    /\ IF mstimer_expired(apdu_timer, ApduTicks)
       THEN IF repeat_forever \/ retry_count # 0
            THEN /\ sends < MaxSends
                 /\ sends' = sends + 1
                 /\ since_send' = 0
                 /\ sent_to' = sent_to \cup {dest}
                 /\ retry_count' = DecRetry(retry_count)
                 /\ apdu_timer' = mstimer_reset(apdu_timer, ApduTicks)
                 /\ pc' = "whois_recv"
            ELSE /\ pc' = "whois_print"
                 /\ UNCHANGED <<sends, retry_count, apdu_timer, since_send,
                                sent_to>>
       ELSE /\ pc' = "whois_recv"
            /\ UNCHANGED <<sends, retry_count, apdu_timer, since_send, sent_to>>
    /\ UNCHANGED <<args, dest, specific, repeat_forever, Error_Detected,
                   Address_Table, pdu_len, Rx_Buf, datalink_timer, quiet,
                   report, exit_code, ticked>>

---------------------------------------------------------------------------
(* whois: print_address_cache and return 0 *)

\* the while (addr) loop: total_addresses++ / dup_addresses++ from entry i on
RECURSIVE CountTable(_, _, _, _)
CountTable(tab, i, total, dup) ==
    IF i > Len(tab)
    THEN [total |-> total, dup |-> dup]
    ELSE CountTable(tab, i + 1, total + 1,
                    IF tab[i].Flags = BAC_ADDRESS_MULT THEN dup + 1 ELSE dup)

\* one line of the table: ';' or ' ', device id, MAC, SNET, SADR (the local
\* SADR 00 when SNET is 0), APDU
PrintRow(e) ==
    [mark |-> IF e.Flags = BAC_ADDRESS_MULT THEN ";" ELSE " ",
     device_id |-> e.device_id,
     mac |-> e.address.mac,
     snet |-> e.address.net,
     sadr |-> IF e.address.net # 0 THEN e.address.adr ELSE <<0>>,
     max_apdu |-> e.max_apdu]

\* the lines printed by the while (addr) loop, first to last
PrintRows(tab) == [i \in 1..Len(tab) |-> PrintRow(tab[i])]

\* bug variant: the duplicate counter counts device ids, not flagged entries
print_count_groups(tab) ==
    LET c == CountTable(tab, 1, 0, 0)
        d == Cardinality({tab[i].device_id : i \in
                            {j \in 1..Len(tab) : tab[j].Flags = BAC_ADDRESS_MULT}})
    IN  [printed |-> TRUE, rows |-> PrintRows(tab), total |-> c.total,
         dup |-> d, dup_line |-> d # 0]

\* the table lines and the two summary lines; the second summary line is
\* printed only if (dup_addresses)
print_address_cache(tab) ==
    LET c == CountTable(tab, 1, 0, 0)
    IN  [printed |-> TRUE, rows |-> PrintRows(tab), total |-> c.total,
         dup |-> c.dup, dup_line |-> c.dup # 0]

WhoIs_Print ==
    /\ pc = "whois_print"
    /\ report' = print_address_cache(Address_Table)
    /\ exit_code' = 0
    /\ pc' = "exit"
    /\ UNCHANGED <<args, dest, specific, repeat_forever, retry_count,
                   Error_Detected, Address_Table, pdu_len, Rx_Buf, apdu_timer,
                   datalink_timer, sends, quiet,
                   ticked, since_send, sent_to>>

---------------------------------------------------------------------------
(* iam main(): the do { } while (repeat_forever || retry_count) loop *)

\* bug variant: the receive is not guarded by repeat_forever || retry_count
IAm_Send_always_receive ==
    /\ pc = "iam_send"
    /\ sends < MaxSends
    /\ sends' = sends + 1
    /\ sent_to' = sent_to \cup {dest}
    /\ pc' = "iam_recv"
    /\ UNCHANGED <<args, dest, specific, repeat_forever, retry_count,
                   Error_Detected, Address_Table, pdu_len, Rx_Buf, apdu_timer,
                   datalink_timer, quiet, report, exit_code, ticked,
                   since_send>>

\* Send_I_Am_To_Network, then if (repeat_forever || retry_count)
IAm_Send ==
    /\ pc = "iam_send"
    /\ sends < MaxSends
    /\ sends' = sends + 1
    /\ sent_to' = sent_to \cup {dest}
    /\ pc' = IF repeat_forever \/ retry_count # 0 THEN "iam_recv" ELSE "iam_while"
    /\ UNCHANGED <<args, dest, specific, repeat_forever, retry_count,
                   Error_Detected, Address_Table, pdu_len, Rx_Buf, apdu_timer,
                   datalink_timer, quiet, report, exit_code, ticked,
                   since_send>>

\* datalink_receive(&src, Rx_Buf, MAX_MPDU, timeout)
IAm_Receive(Frames) ==
    /\ pc = "iam_recv"
    /\ \/ /\ pdu_len' = 0
          /\ Rx_Buf' \in Frames \cup {NoFrame}
          /\ quiet' = quiet
       \/ /\ pdu_len' = 1
          /\ Rx_Buf' \in Frames
          /\ quiet' = FALSE
    /\ pc' = "iam_handle"
    /\ UNCHANGED <<args, dest, specific, repeat_forever, retry_count,
                   Error_Detected, Address_Table, sends, apdu_timer,
                   datalink_timer, report, exit_code,
                   ticked, since_send, sent_to>>

\* bug variant: the buffer is dispatched whatever the length
IAm_Dispatch_unguarded ==
    /\ pc = "iam_handle"
    /\ Error_Detected' = ErrorAfter(Error_Detected, Rx_Buf)
    /\ pc' = "iam_errchk"
    /\ UNCHANGED <<args, dest, specific, repeat_forever, retry_count,
                   Address_Table, pdu_len, Rx_Buf, apdu_timer, datalink_timer,
                   sends, quiet, report, exit_code,
                   ticked, since_send, sent_to>>

\* if (pdu_len) npdu_handler(...): handler_i_am_add and handler_who_is touch
\* nothing of this file, MyAbortHandler and MyRejectHandler set Error_Detected
IAm_Dispatch ==
    /\ pc = "iam_handle"
    /\ Error_Detected' = IF pdu_len # 0 THEN ErrorAfter(Error_Detected, Rx_Buf)
                         ELSE Error_Detected
    /\ pc' = "iam_errchk"
    /\ UNCHANGED <<args, dest, specific, repeat_forever, retry_count,
                   Address_Table, pdu_len, Rx_Buf, apdu_timer, datalink_timer,
                   sends, quiet, report, exit_code,
                   ticked, since_send, sent_to>>

\* bug variant: retry_count is never decremented
IAm_ErrorCheck_keep_retry ==
    /\ pc = "iam_errchk"
    /\ IF Error_Detected
       THEN /\ pc' = "exit"
            /\ exit_code' = 0
       ELSE /\ pc' = "iam_while"
            /\ exit_code' = exit_code
    /\ UNCHANGED <<args, dest, specific, repeat_forever, retry_count,
                   Error_Detected, Address_Table, pdu_len, Rx_Buf, apdu_timer,
                   datalink_timer, sends, quiet, report,
                   ticked, since_send, sent_to>>

\* bug variant: the error check does not leave the loop
IAm_ErrorCheck_no_break ==
    /\ pc = "iam_errchk"
    /\ retry_count' = DecRetry(retry_count)
    /\ pc' = "iam_while"
    /\ exit_code' = exit_code
    /\ UNCHANGED <<args, dest, specific, repeat_forever, Error_Detected,
                   Address_Table, pdu_len, Rx_Buf, apdu_timer, datalink_timer,
                   sends, quiet, report,
                   ticked, since_send, sent_to>>

\* if (Error_Detected) break; if (retry_count > 0) retry_count--
IAm_ErrorCheck ==
    /\ pc = "iam_errchk"
    /\ IF Error_Detected
       THEN /\ pc' = "exit"
            /\ exit_code' = 0
            /\ retry_count' = retry_count
       ELSE /\ pc' = "iam_while"
            /\ exit_code' = exit_code
            /\ retry_count' = DecRetry(retry_count)
    /\ UNCHANGED <<args, dest, specific, repeat_forever, Error_Detected,
                   Address_Table, pdu_len, Rx_Buf, apdu_timer, datalink_timer,
                   sends, quiet, report,
                   ticked, since_send, sent_to>>

\* while (repeat_forever || retry_count); return 0
IAm_While ==
    /\ pc = "iam_while"
    /\ IF repeat_forever \/ retry_count # 0
       THEN /\ pc' = "iam_send"
            /\ exit_code' = exit_code
       ELSE /\ pc' = "exit"
            /\ exit_code' = 0
    /\ UNCHANGED <<args, dest, specific, repeat_forever, retry_count,
                   Error_Detected, Address_Table, pdu_len, Rx_Buf, apdu_timer,
                   datalink_timer, sends, quiet, report,
                   ticked, since_send, sent_to>>

---------------------------------------------------------------------------
(* Specifications *)

NextOver(Cmds, Frames) ==
    \/ Start(Cmds)
    \/ WhoIs_FirstSend
    \/ WhoIs_Receive(Frames)
    \/ WhoIs_Dispatch
    \/ WhoIs_ErrorCheck
    \/ WhoIs_MaintenanceTimer
    \/ WhoIs_RequestTimer
    \/ WhoIs_Print
    \/ IAm_Send
    \/ IAm_Receive(Frames)
    \/ IAm_Dispatch
    \/ IAm_ErrorCheck
    \/ IAm_While

\* Loop runs: both tools, every --repeat / --retry combination, broadcast or
\* one directed destination, a usage error; one station answering
LoopCmds ==
    {Cmd(t, m, -1, NoMac, rep, r, p) :
        t \in Tools, m \in {NoMac, <<192, 168>>}, rep \in BOOLEAN,
        r \in -1..MaxRetry, p \in {<< >>}}
    \cup {Cmd(t, NoMac, -1, NoMac, FALSE, 0, <<1, 2, 3, 4, 5>>) : t \in Tools}

LoopFrames == {IAmFrame(100, 480, AddrA), BadIAmFrame, AbortFrame, RejectFrame}

Next == NextOver(LoopCmds, LoopFrames)

Spec == Init /\ [][Next]_vars

\* the process is scheduled until main returns
FairSpec == Spec /\ WF_vars(Next)

\* a receive during which the clock moves on
Tick == WhoIs_Receive(LoopFrames) /\ since_send' > since_send

\* the process is scheduled and time passes: however many frames arrive,
\* receives go on taking time
TimedSpec == Spec /\ WF_vars(Next) /\ SF_vars(Tick)

\* Roster runs: whois without --repeat / --retry, two device ids at two
\* stations announcing two max-APDU values, malformed frames, an abort
RosterCmds == {Cmd("whois", NoMac, -1, NoMac, FALSE, 0, p) : p \in {<< >>, <<1, 2, 3>>}}
                \cup {Cmd("iam", NoMac, -1, NoMac, FALSE, 1, << >>)}

RosterFrames ==
    {IAmFrame(id, apdu, a) : id \in {100, 200}, apdu \in {50, 480}, a \in {AddrA, AddrB}}
    \cup {BadIAmFrame, AbortFrame}

RosterNext == NextOver(RosterCmds, RosterFrames)

RosterSpec == Init /\ [][RosterNext]_vars

\* Argument runs: every combination of --mac, --dadr and --dnet (absent,
\* negative, the ends of the range, past the range), each option given at
\* most once, and positional arguments up to one more than either tool takes
HintMacs == {NoMac, <<192, 168>>}

HintAdrs == {NoMac, <<7>>}

HintNets == {-1, -5, 0, 5, 65535, 65536, 70000}

ArgCmds ==
    {Cmd(t, m, n, a, FALSE, r, << >>) :
        t \in Tools, m \in HintMacs, n \in HintNets, a \in HintAdrs, r \in {0, 1}}
    \cup {Cmd(t, NoMac, -1, NoMac, FALSE, 0, p) :
            t \in Tools,
            p \in {<<1>>, <<1, 2>>, <<1, 2, 3>>, <<1, 2, 3, 4>>, <<1, 2, 3, 4, 5>>,
                   <<4194304>>, <<1, 4194304>>}}

ArgFrames == {IAmFrame(100, 480, AddrA), AbortFrame}

ArgNext == NextOver(ArgCmds, ArgFrames)

ArgSpec == Init /\ [][ArgNext]_vars

---------------------------------------------------------------------------
(* Vocabulary of the properties *)

Flagged(e) == e.Flags = BAC_ADDRESS_MULT

\* tab holds an entry of this identity at exactly this address
HasPair(tab, device_id, a) ==
    \E i \in 1..Len(tab) : tab[i].device_id = device_id /\ tab[i].address = a

HasId(tab, device_id) == \E i \in 1..Len(tab) : tab[i].device_id = device_id

\* this step is a call record(Rx_Buf.device_id, Rx_Buf.max_apdu, Rx_Buf.src):
\* whois dispatches a decodable I-Am
RecordStep ==
    /\ pc = "whois_handle"
    /\ pc' = "whois_errchk"
    /\ pdu_len # 0
    /\ Rx_Buf.kind = "iam"
    /\ Rx_Buf.decodes

\* the whois loop has just dispatched frame f
Dispatched(f) == pc = "whois_errchk" /\ pdu_len # 0 /\ Rx_Buf = f

---------------------------------------------------------------------------
(* C1: record() on an (identityId, sourceAddress) pair the roster already   *)
(* holds changes nothing: length, order, flags and stored maxApduLen stay,  *)
(* also when the announced maxApduLen differs from the stored one.          *)
C1_RecordIdempotent ==
    [][(RecordStep /\ HasPair(Address_Table, Rx_Buf.device_id, Rx_Buf.src))
        => Address_Table' = Address_Table]_vars

\* (100, A) recorded with max-APDU 50, then again with 480: one entry, not
\* flagged, still 50
C1_Witness ==
    /\ Dispatched(IAmFrame(100, 480, AddrA))
    /\ Address_Table = <<Entry(0, 100, 50, AddrA)>>

(* C2: record(id, apdu, B) on a roster that holds id, but not at address B, *)
(* appends (id, apdu, B, duplicate) at the tail and flags every earlier     *)
(* entry of id; entries of other ids keep their flag; nothing else changes. *)
C2_RetroactiveDuplicate ==
    [][(RecordStep /\ HasId(Address_Table, Rx_Buf.device_id)
                   /\ ~HasPair(Address_Table, Rx_Buf.device_id, Rx_Buf.src))
        => /\ Len(Address_Table') = Len(Address_Table) + 1
           /\ Address_Table'[Len(Address_Table')]
                = Entry(BAC_ADDRESS_MULT, Rx_Buf.device_id, Rx_Buf.max_apdu, Rx_Buf.src)
           /\ \A i \in 1..Len(Address_Table) :
                Address_Table'[i] =
                    IF Address_Table[i].device_id = Rx_Buf.device_id
                    THEN [Address_Table[i] EXCEPT !.Flags = BAC_ADDRESS_MULT]
                    ELSE Address_Table[i]]_vars

\* (100, A), then (200, A), then (100, B): A first, B last, both flagged,
\* 200 in between not flagged
C2_Witness ==
    /\ Dispatched(IAmFrame(100, 480, AddrB))
    /\ Address_Table = <<Entry(BAC_ADDRESS_MULT, 100, 50, AddrA),
                         Entry(0, 200, 50, AddrA),
                         Entry(BAC_ADDRESS_MULT, 100, 480, AddrB)>>

(* C3: record(id, apdu, addr) on a roster without id appends exactly        *)
(* (id, apdu, addr, not duplicate) at the tail and modifies no entry.       *)
C3_FreshInsertion ==
    [][(RecordStep /\ ~HasId(Address_Table, Rx_Buf.device_id))
        => Address_Table'
             = Append(Address_Table,
                      Entry(0, Rx_Buf.device_id, Rx_Buf.max_apdu, Rx_Buf.src))]_vars

\* 200 recorded into a roster that holds a flagged group of 100
C3_Witness ==
    /\ Dispatched(IAmFrame(200, 50, AddrB))
    /\ Address_Table = <<Entry(BAC_ADDRESS_MULT, 100, 50, AddrA),
                         Entry(BAC_ADDRESS_MULT, 100, 480, AddrB),
                         Entry(0, 200, 50, AddrB)>>

(* C4: over a whole run the roster only grows at the tail: every entry      *)
(* keeps its position, identityId, sourceAddress and maxApduLen, the length *)
(* never decreases, and a duplicate flag that is set stays set.             *)
C4_AppendOnly ==
    [][/\ Len(Address_Table') >= Len(Address_Table)
       /\ \A i \in 1..Len(Address_Table) :
            /\ Address_Table'[i].device_id = Address_Table[i].device_id
            /\ Address_Table'[i].address = Address_Table[i].address
            /\ Address_Table'[i].max_apdu = Address_Table[i].max_apdu
            /\ Flagged(Address_Table[i]) => Flagged(Address_Table'[i])]_vars

\* a finished run that recorded four entries, the first one flagged later
C4_Witness ==
    /\ pc = "exit"
    /\ report.printed
    /\ Len(Address_Table) = 4
    /\ Address_Table[1] = Entry(BAC_ADDRESS_MULT, 100, 480, AddrB)
    /\ Address_Table[4] = Entry(BAC_ADDRESS_MULT, 100, 50, AddrA)

(* C5: no two roster entries have the same identityId and an equal          *)
(* sourceAddress.                                                           *)
C5_UniquePairs ==
    \A i, j \in 1..Len(Address_Table) :
        (i # j /\ Address_Table[i].device_id = Address_Table[j].device_id)
            => Address_Table[i].address # Address_Table[j].address

\* both ids known at both addresses, the last pair recorded after a repeat
C5_Witness ==
    /\ Len(Address_Table) = 4
    /\ Dispatched(IAmFrame(Address_Table[1].device_id, 50, Address_Table[1].address))
    /\ Address_Table[1].max_apdu = 480

(* C6: the printed summary's total is the number of roster entries and its  *)
(* duplicate count the number of flagged entries (the duplicate line is     *)
(* left out exactly when that number is 0).                                 *)
C6_ReportCounts ==
    report.printed =>
        /\ report.total = Len(Address_Table)
        /\ report.dup = Cardinality({i \in 1..Len(Address_Table) :
                                        Flagged(Address_Table[i])})
        /\ report.dup_line <=> (report.dup > 0)

\* three entries printed, two of them flagged
C6_Witness ==
    /\ report.printed
    /\ report.total = 3
    /\ report.dup = 2
    /\ ~Flagged(Address_Table[2])

---------------------------------------------------------------------------
(* Runs of the loops *)

\* main got past the argument loop of this tool
Running(tool) == args.tool = tool /\ pc # "start" /\ exit_code # 1

\* main returned 0
Finished(tool) == args.tool = tool /\ pc = "exit" /\ exit_code = 0

\* no frame arrived and no abort / reject was handled
NoTraffic == quiet /\ ~Error_Detected

\* "Send the message C number of times / Default is retry 0, only sending
\* one time"
HelpTextSends(retry) == IF retry >= 1 THEN retry ELSE 1

(* C7, as the specification states it: whois --retry 2 without --repeat,    *)
(* nothing received, sends 3 times (1 initial + 2 retries) and terminates.  *)
C7_ThreeSends ==
    (Finished("whois") /\ args.retry = 2 /\ ~args.repeat /\ NoTraffic)
        => sends = 3

(* C7, amended: whois --retry 2 without --repeat, nothing received, sends   *)
(* exactly 2 times (the first send uses up one of the two) and terminates.  *)
C7_TwoSends ==
    /\ []((Running("whois") /\ args.retry = 2 /\ ~args.repeat /\ NoTraffic)
            => /\ sends <= 2
               /\ Finished("whois") => sends = 2)
    /\ (Running("whois") /\ args.retry = 2 /\ ~args.repeat)
            ~> (Finished("whois") \/ ~NoTraffic)

\* such a run, finished and reported after its second send
C7_Witness ==
    /\ Finished("whois") /\ args.retry = 2 /\ ~args.repeat /\ NoTraffic
    /\ sends = 2
    /\ retry_count = 0
    /\ report.printed

(* C8: without --repeat and without abort / reject, --retry C (C >= 1)      *)
(* sends the message exactly C times over the run, and the default --retry  *)
(* 0 sends it once, in whois and in iam; no run without --repeat sends      *)
(* more often than that.                                                    *)
C8_SendsAsHelpText ==
    /\ (Running("whois") \/ Running("iam")) /\ ~args.repeat
            => sends <= HelpTextSends(args.retry)
    /\ (Finished("whois") \/ Finished("iam")) /\ ~args.repeat /\ ~Error_Detected
            => sends = HelpTextSends(args.retry)

\* iam --retry 3 returned after three sends, frames having arrived meanwhile
C8_Witness ==
    /\ Finished("iam") /\ args.retry = 3 /\ ~args.repeat /\ ~Error_Detected
    /\ sends = 3
    /\ ~quiet

(* C9: iam --repeat never leaves its loop unless an abort / reject was      *)
(* handled, whatever --retry says; every iteration is one send followed by  *)
(* one receive; once Error_Detected is set the loop is left in that         *)
(* iteration, with no further send and no further receive.                  *)
C9_RepeatUntilAbort ==
    /\ []((Running("iam") /\ repeat_forever /\ pc = "exit") => Error_Detected)
    /\ []((Running("iam") /\ Error_Detected) => pc \in {"iam_errchk", "exit"})
    /\ [][(Running("iam") /\ repeat_forever)
            => /\ pc = "iam_send" => (pc' = "iam_recv" /\ sends' = sends + 1)
               /\ pc = "iam_while" => pc' = "iam_send"
               /\ Error_Detected => (pc' = "exit" /\ sends' = sends)]_vars

\* iam --repeat --retry 1 sent three times, then handled an abort and returned
C9_Witness ==
    /\ Finished("iam") /\ repeat_forever /\ args.retry = 1
    /\ Error_Detected
    /\ Rx_Buf = AbortFrame
    /\ sends = 3

(* C10: an iteration whose receive returned length 0 dispatches nothing:    *)
(* from that receive to the next one Address_Table and Error_Detected keep  *)
(* their values, in both tools.                                             *)
C10_TimeoutChangesNothing ==
    [][(pdu_len = 0 \/ pdu_len' = 0)
        => /\ Address_Table' = Address_Table
           /\ Error_Detected' = Error_Detected]_vars

\* whois past the dispatch of an iteration that timed out with the bytes of
\* an abort in the buffer, the roster not empty
C10_Witness ==
    /\ pc = "whois_errchk"
    /\ pdu_len = 0
    /\ Rx_Buf = AbortFrame
    /\ ~Error_Detected
    /\ Len(Address_Table) = 1

---------------------------------------------------------------------------
(* C11: whois: once a dispatched frame has set Error_Detected the loop     *)
(* ends, whatever the timers, --repeat and retry_count are: the flag is    *)
(* raised by the dispatch only, and from then on there is no send, no      *)
(* receive, no maintenance tick, no timer reset and no table change; the   *)
(* run goes from the error check to the report and the exit.               *)
C11_ErrorEndsLoop ==
    [][/\ (args.tool = "whois" /\ ~Error_Detected /\ Error_Detected')
            => (pc = "whois_handle" /\ pc' = "whois_errchk")
       /\ (args.tool = "whois" /\ Error_Detected)
            => /\ pc \in {"whois_errchk", "whois_print"}
               /\ pc' \in {"whois_print", "exit"}
               /\ UNCHANGED <<sends, sent_to, since_send, pdu_len, Rx_Buf,
                              quiet, ticked, apdu_timer, datalink_timer,
                              retry_count, Address_Table>>]_vars

\* an abort ended a --repeat run in an iteration where both timers had expired
C11_Witness ==
    /\ args.tool = "whois"
    /\ pc = "exit"
    /\ Error_Detected
    /\ repeat_forever
    /\ retry_count > 0
    /\ mstimer_expired(apdu_timer, ApduTicks)
    /\ mstimer_expired(datalink_timer, DatalinkTicks)
    /\ ~ticked

---------------------------------------------------------------------------
(* C12: whois: abort and reject end the loop, not the run.  Every way out  *)
(* of the loop, by the error flag or by the request timer, leads to        *)
(* print_address_cache; the report is printed once, it lists the entries   *)
(* of the table as they are when the loop is left, first to last, and main *)
(* returns 0.                                                              *)
WhoIs_LoopPcs ==
    {"whois_recv", "whois_handle", "whois_errchk", "whois_dltimer",
     "whois_apdutimer"}

\* the report lists exactly the entries of tab, in order
ListsTable(rep, tab) ==
    /\ rep.printed
    /\ rep.total = Len(tab)
    /\ Len(rep.rows) = Len(tab)
    /\ \A i \in 1..Len(tab) :
        /\ rep.rows[i].device_id = tab[i].device_id
        /\ rep.rows[i].mac = tab[i].address.mac
        /\ rep.rows[i].snet = tab[i].address.net
        /\ rep.rows[i].max_apdu = tab[i].max_apdu
        /\ (rep.rows[i].mark = ";") = Flagged(tab[i])

C12_ReportOnEveryExit ==
    [][args'.tool = "whois" =>
        /\ (pc \in WhoIs_LoopPcs /\ pc' \notin WhoIs_LoopPcs)
             => /\ pc' = "whois_print"
                /\ ~report'.printed
                /\ Address_Table' = Address_Table
        /\ pc = "whois_print"
             => /\ pc' = "exit"
                /\ exit_code' = 0
                /\ ListsTable(report', Address_Table)
                /\ Address_Table' = Address_Table
        /\ report' # report => (pc = "whois_print" /\ ~report.printed)
        /\ (pc' = "exit" /\ exit_code' # 1)
             => (pc = "whois_print" /\ exit_code' = 0)]_vars

\* a run ended by an abort after two stations had answered for one device
C12_Witness ==
    /\ Finished("whois")
    /\ Error_Detected
    /\ Len(Address_Table) = 2
    /\ Flagged(Address_Table[2])
    /\ ListsTable(report, Address_Table)

---------------------------------------------------------------------------
(* C13: the destination follows four cases in priority order, for every    *)
(* combination of hints: (1) --mac and --dadr: mac, sub-address, and the   *)
(* network if in 0..65535 else 65535; (2) --mac only: mac, no sub-address, *)
(* the network if valid else 0; (3) no --mac and a valid network: the      *)
(* network alone; (4) otherwise the default of the tool, the broadcast     *)
(* address for whois and the zero address for iam.  No combination fails.  *)
InRange(dnet) == dnet \in 0..65535

ToolDefault(tool) ==
    IF tool = "whois" THEN Addr(65535, NoMac, NoMac) ELSE Addr(0, NoMac, NoMac)

FourCases(tool, mac, dnet, adr) ==
    IF Len(mac) # 0 /\ Len(adr) # 0
    THEN Addr(IF InRange(dnet) THEN dnet ELSE 65535, mac, adr)
    ELSE IF Len(mac) # 0
    THEN Addr(IF InRange(dnet) THEN dnet ELSE 0, mac, NoMac)
    ELSE IF InRange(dnet)
    THEN Addr(dnet, NoMac, NoMac)
    ELSE ToolDefault(tool)

\* the run got past the argument loop without a positional argument
Resolved == pc # "start" /\ args.pos = << >>

C13_FourCases ==
    Resolved => /\ exit_code # 1
                /\ dest = FourCases(args.tool, args.mac, args.dnet, args.adr)

\* as stated, with one more case before the default: --dadr without --mac
\* and without a valid network gives network 65535 and no mac, no
\* sub-address, in both tools
FiveCases(tool, mac, dnet, adr) ==
    IF Len(mac) = 0 /\ Len(adr) # 0 /\ ~InRange(dnet)
    THEN Addr(65535, NoMac, NoMac)
    ELSE FourCases(tool, mac, dnet, adr)

C13_FiveCases ==
    Resolved => /\ exit_code # 1
                /\ dest = FiveCases(args.tool, args.mac, args.dnet, args.adr)

\* iam sent to network 65535 because --dadr was given alone
C13_Witness ==
    /\ Running("iam")
    /\ Resolved
    /\ args.mac = NoMac /\ args.adr # NoMac /\ ~InRange(args.dnet)
    /\ dest = Addr(65535, NoMac, NoMac)
    /\ sent_to = {dest}

---------------------------------------------------------------------------
(* C14: with --dnet 70000 and neither --mac nor --dadr the destination has *)
(* network 65535 (broadcast), no mac and no sub-address.                   *)
OnlyNet70000 ==
    Resolved /\ args.dnet = 70000 /\ args.mac = NoMac /\ args.adr = NoMac

C14_Broadcast == OnlyNet70000 => dest = Addr(65535, NoMac, NoMac)

\* as stated for whois; for iam the destination is left as it was
\* initialised: network 0, no mac, no sub-address
C14_BroadcastOrUnset ==
    OnlyNet70000 =>
        /\ exit_code # 1
        /\ args.tool = "whois" => dest = Addr(65535, NoMac, NoMac)
        /\ args.tool = "iam" => dest = Addr(0, NoMac, NoMac)

\* iam --dnet 70000 sent its I-Am to network 0
C14_Witness ==
    /\ OnlyNet70000
    /\ Running("iam")
    /\ dest.net = 0
    /\ sent_to = {dest}

---------------------------------------------------------------------------
(* C15: a --dnet value outside 0..65535 counts as no --dnet at all: with   *)
(* every combination of --mac and --dadr, in both tools, the destination   *)
(* and the flag that a specific target was asked for are those of the same *)
(* command line without --dnet, and the run does not end in an error.      *)
DestOf(tool, mac, dnet, adr) ==
    IF tool = "whois" THEN WhoIs_Resolve(mac, dnet, adr)
    ELSE IAm_Resolve(mac, dnet, adr)

C15_OutOfRangeAsAbsent ==
    (Resolved /\ ~InRange(args.dnet)) =>
        /\ exit_code # 1
        /\ dest = DestOf(args.tool, args.mac, -1, args.adr)
        /\ specific = SpecificRequested(args.mac, -1, args.adr)
        /\ specific = (args.mac # NoMac \/ args.adr # NoMac)

\* whois --mac .. --dnet 65536 sent to the station on the local network
C15_Witness ==
    /\ Running("whois")
    /\ Resolved
    /\ args.dnet = 65536 /\ args.mac # NoMac /\ args.adr = NoMac
    /\ specific
    /\ dest = Addr(0, args.mac, NoMac)
    /\ sent_to = {dest}

---------------------------------------------------------------------------
(* C16: dest is built before the first send and not written afterwards:    *)
(* nothing is sent before main has resolved it, no receive, dispatch,      *)
(* timer or table step changes it, and every send of a run is handed the   *)
(* same descriptor.                                                        *)
C16_DestinationFixed ==
    /\ [](pc = "start" => (sends = 0 /\ sent_to = {}))
    /\ []((pc # "start" /\ exit_code # 1) =>
            dest = DestOf(args.tool, args.mac, args.dnet, args.adr))
    /\ [](sends > 0 => sent_to = {dest})
    /\ [][pc # "start" =>
            /\ dest' = dest
            /\ sends' # sends => sent_to' = sent_to \cup {dest}]_vars

\* three Who-Is to one station, with an answer recorded in between
C16_Witness ==
    /\ Running("whois")
    /\ sends >= 3
    /\ dest.mac # NoMac
    /\ sent_to = {dest}
    /\ Len(Address_Table) > 0
    /\ ticked

---------------------------------------------------------------------------
(* C17: without --repeat nothing is retried for ever: whatever --retry is  *)
(* and whatever frames arrive, a run sends at most 1 + retry count times,  *)
(* and, as long as time passes so that the request timer expires after     *)
(* each send, the whois loop ends; the iam loop ends after finitely many   *)
(* iterations.                                                             *)
RetryCountOf(c) == IF c.retry < 0 THEN 0 ELSE c.retry

C17_NoEndlessRetry ==
    /\ []((pc # "start" /\ ~args.repeat) => sends <= 1 + RetryCountOf(args))
    /\ ((Running("whois") \/ Running("iam")) /\ ~args.repeat) ~> (pc = "exit")

\* whois --retry 3 ended after three sends on a network that kept answering
C17_Witness ==
    /\ Finished("whois")
    /\ ~args.repeat /\ args.retry = 3
    /\ sends = 3
    /\ ~quiet /\ ~Error_Detected
    /\ Len(Address_Table) > 0

---------------------------------------------------------------------------
(* C18: a usage error is silent on the network.  One positional argument   *)
(* too many (a third for whois, a fifth for iam) ends main with exit code  *)
(* 1; exit code 1 comes from the argument processing only, and a run that  *)
(* ends with it has sent nothing, received nothing and printed no report.  *)
NothingDone ==
    /\ sends = 0 /\ sent_to = {}
    /\ quiet /\ pdu_len = 0 /\ Rx_Buf = NoFrame
    /\ apdu_timer = 0 /\ datalink_timer = 0 /\ since_send = 0 /\ ~ticked
    /\ ~Error_Detected
    /\ Address_Table = << >>
    /\ report = NoReport

ExcessPositional(c) ==
    \/ c.tool = "whois" /\ Len(c.pos) >= 3
    \/ c.tool = "iam" /\ Len(c.pos) >= 5

C18_UsageErrorSilent ==
    /\ [](pc = "start" => NothingDone)
    /\ []((pc # "start" /\ ExcessPositional(args)) => exit_code = 1)
    /\ [](exit_code = 1 => (pc = "exit" /\ NothingDone))
    /\ [][/\ exit_code' = 1 => pc = "start"
          /\ exit_code # 1]_vars

\* whois with a third positional argument
C18_Witness ==
    /\ args.tool = "whois"
    /\ Len(args.pos) = 3
    /\ pc = "exit"
    /\ exit_code = 1
    /\ NothingDone

---------------------------------------------------------------------------
(* C19: whois: in every iteration that gets to the timers the maintenance  *)
(* timer is looked at first: the request timer is reached from the         *)
(* maintenance check only, which ticks and resets the maintenance timer if *)
(* it has expired and sends nothing.  So when both timers have expired in  *)
(* one iteration the tick comes before the resend, and in the last         *)
(* iteration before the decision to stop.                                  *)
WhoIs_Resend == args.tool = "whois" /\ pc # "whois_send" /\ sends' # sends

WhoIs_TimerExit == pc' = "whois_print" /\ ~Error_Detected

C19_MaintenanceFirst ==
    [][/\ pc' = "whois_apdutimer" =>
            /\ pc = "whois_dltimer"
            /\ ~ticked
            /\ ticked' = (datalink_timer >= DatalinkTicks)
            /\ ticked' => datalink_timer' = datalink_timer - DatalinkTicks
            /\ ~ticked' => datalink_timer' = datalink_timer
            /\ UNCHANGED <<sends, apdu_timer, retry_count>>
       /\ pc = "whois_dltimer" => pc' = "whois_apdutimer"
       /\ (WhoIs_Resend \/ WhoIs_TimerExit) =>
            /\ pc = "whois_apdutimer"
            /\ ticked' = ticked
       /\ ticked' # ticked => pc \in {"whois_recv", "whois_dltimer"}]_vars

\* both timers had expired: the tick was made, then the Who-Is was sent again
C19_Witness ==
    /\ Running("whois")
    /\ pc = "whois_recv"
    /\ ticked
    /\ since_send = 0
    /\ sends = 2

---------------------------------------------------------------------------
(* C20: whois: a resend, and an exit that no error caused, happen only in  *)
(* an iteration where the request timer has expired; an iteration sends at *)
(* most once; the request timer is reset after every resend, so that,      *)
(* without an error, the loop is not left before a full period of the      *)
(* request timer has passed since the last send.                           *)
ResendOnExpiry ==
    /\ (WhoIs_Resend \/ WhoIs_TimerExit) =>
            (pc = "whois_apdutimer" /\ apdu_timer >= ApduTicks)
    /\ WhoIs_Resend =>
            /\ sends' = sends + 1
            /\ pc' = "whois_recv"
            /\ apdu_timer' = apdu_timer - ApduTicks
    /\ args.tool = "whois" => sends' \in {sends, sends + 1}

---------------------------------------------------------------------------
(* C21: whois: an I-Am that cannot be decoded is not fatal.  Dispatching   *)
(* it leaves the table, Error_Detected, retry_count, the timers and the    *)
(* send count as a dispatch with no frame would, and the loop goes on to   *)
(* the timers.                                                             *)
Malformed(f) == f.kind = "iam" /\ ~f.decodes

C21_MalformedNotFatal ==
    [][/\ (pc = "whois_handle" /\ pdu_len # 0 /\ Malformed(Rx_Buf)) =>
            /\ pc' = "whois_errchk"
            /\ UNCHANGED <<Address_Table, Error_Detected, retry_count,
                           repeat_forever, apdu_timer, datalink_timer,
                           since_send, sends, report, exit_code>>
       /\ (pc = "whois_errchk" /\ pdu_len # 0 /\ Malformed(Rx_Buf)) =>
            /\ ~Error_Detected
            /\ pc' = "whois_dltimer"
            /\ UNCHANGED <<Address_Table, Error_Detected, retry_count,
                           apdu_timer, datalink_timer, sends>>]_vars

\* a malformed I-Am went through a loop that holds an entry and has retries left
C21_Witness ==
    /\ Running("whois")
    /\ pc = "whois_dltimer"
    /\ pdu_len # 0 /\ Malformed(Rx_Buf)
    /\ Len(Address_Table) = 1
    /\ retry_count > 0
    /\ ~Error_Detected

---------------------------------------------------------------------------
(* C22: cancellation is cooperative: Error_Detected is set only by the     *)
(* dispatch of a received frame, never during a receive, and a set flag is *)
(* acted on at the top of the next iteration of the loop.                  *)
SetByDispatchOnly ==
    /\ Error_Detected' # Error_Detected =>
            /\ pc \in {"whois_handle", "iam_handle"}
            /\ pdu_len # 0
            /\ Rx_Buf.kind \in {"abort", "reject"}
            /\ Error_Detected'
    /\ pc \in {"whois_recv", "iam_recv"} =>
            (~Error_Detected /\ ~Error_Detected')

\* this step leaves the loop because of the flag
ErrorExit ==
    /\ Error_Detected
    /\ \/ pc \in WhoIs_LoopPcs /\ pc' \notin WhoIs_LoopPcs
       \/ pc \in {"iam_send", "iam_recv", "iam_handle", "iam_errchk", "iam_while"}
            /\ pc' = "exit"

C22_HonouredAtTop ==
    [][/\ SetByDispatchOnly
       /\ ErrorExit => pc \in {"whois_recv", "iam_send"}]_vars

\* as stated, but the flag is acted on by the test that follows the dispatch,
\* in the iteration that set it: the rest of that iteration does not run
C22_HonouredAfterDispatch ==
    [][/\ SetByDispatchOnly
       /\ ErrorExit => (pc \in {"whois_errchk", "iam_errchk"} /\ pdu_len # 0)
       /\ (Error_Detected /\ pc \in {"whois_errchk", "iam_errchk"}) =>
            pc' \in {"whois_print", "exit"}]_vars

\* iam left its loop on an abort with retries left, before the decrement
C22_Witness ==
    /\ Finished("iam")
    /\ Error_Detected
    /\ pdu_len # 0
    /\ retry_count = 2
    /\ sends = 2

---------------------------------------------------------------------------
(* C23: iam: the first send depends on nothing.  Without --repeat and with *)
(* a retry count of 0 the run sends exactly once, receives and dispatches  *)
(* nothing, and ends.  Each later send follows a loop test that found      *)
(* repeat_forever set or retry_count still above 0.                        *)
IAm_Once == args.tool = "iam" /\ ~args.repeat /\ args.retry <= 0

C23_FirstSendUnconditional ==
    /\ []((Running("iam") /\ pc # "iam_send") => sends >= 1)
    /\ []((Running("iam") /\ IAm_Once) =>
            /\ pc \in {"iam_send", "iam_while", "exit"}
            /\ quiet /\ pdu_len = 0 /\ Rx_Buf = NoFrame
            /\ sends <= 1
            /\ pc = "exit" => (sends = 1 /\ exit_code = 0))
    /\ (Running("iam") /\ IAm_Once) ~> Finished("iam")
    /\ [][args'.tool = "iam" =>
            /\ (pc = "start" /\ pc' # "exit") => pc' = "iam_send"
            /\ pc = "iam_send" => (sends' = sends + 1 /\ sent_to' = {dest})
            /\ (pc' = "iam_send" /\ pc # "start") =>
                    /\ pc = "iam_while"
                    /\ repeat_forever \/ retry_count > 0
                    /\ UNCHANGED <<repeat_forever, retry_count>>
            /\ sends' # sends => pc = "iam_send"]_vars

\* iam without --repeat and --retry: one I-Am, nothing received, exit
C23_Witness ==
    /\ Finished("iam")
    /\ IAm_Once
    /\ sends = 1
    /\ quiet /\ pdu_len = 0 /\ Rx_Buf = NoFrame

---------------------------------------------------------------------------
(* C24: retry_count is never negative in either loop: a negative --retry   *)
(* is 0 when the loop starts, the counter goes down by one at a time and   *)
(* only from a positive value, it never goes up, and with --repeat it      *)
(* stays at 0 once used up while the sends go on.                          *)
C24_RetryNeverNegative ==
    /\ [](retry_count >= 0)
    /\ []((pc # "start" /\ exit_code # 1) =>
            retry_count <= (IF args.retry < 0 THEN 0 ELSE args.retry))
    /\ [][pc # "start" =>
            /\ retry_count' \in {retry_count, retry_count - 1}
            /\ retry_count' # retry_count =>
                    (retry_count > 0 /\ pc \notin {"whois_recv", "iam_recv"})
            /\ (repeat_forever /\ retry_count = 0) => retry_count' = 0]_vars

\* whois --repeat --retry 2: the count ran out after two sends, the fifth
\* Who-Is went out with the count still at 0
C24_Witness ==
    /\ Running("whois")
    /\ args.repeat /\ args.retry = 2
    /\ retry_count = 0
    /\ sends = 5

---------------------------------------------------------------------------
(* C25: in every table the program can build, an entry carries the         *)
(* duplicate flag exactly if the table holds another entry of the same     *)
(* device id (which then has another address); so the entries of one       *)
(* device id all carry the same flag.                                      *)
C25_FlagIffShared ==
    /\ \A i \in 1..Len(Address_Table) :
        Flagged(Address_Table[i]) <=>
            \E j \in 1..Len(Address_Table) :
                /\ j # i
                /\ Address_Table[j].device_id = Address_Table[i].device_id
                /\ Address_Table[j].address # Address_Table[i].address
    /\ \A i, j \in 1..Len(Address_Table) :
        (i # j /\ Address_Table[i].device_id = Address_Table[j].device_id) =>
            /\ Address_Table[i].address # Address_Table[j].address
            /\ Address_Table[i].Flags = Address_Table[j].Flags

\* two stations answered for device 100, one for device 200
C25_Witness ==
    /\ Len(Address_Table) = 3
    /\ Address_Table[1].device_id = 100 /\ Flagged(Address_Table[1])
    /\ Address_Table[2].device_id = 200 /\ ~Flagged(Address_Table[2])
    /\ Address_Table[3].device_id = 100 /\ Flagged(Address_Table[3])

---------------------------------------------------------------------------
(* C26: --dadr without --mac is dropped: in both tools the destination     *)
(* then has no mac and no sub-address, and its network is --dnet if it is  *)
(* in 0..65535 and 65535 otherwise.  So a destination with a sub-address   *)
(* always has a mac.                                                       *)
C26_SubAddressNeedsMac ==
    Resolved =>
        /\ (args.mac = NoMac /\ args.adr # NoMac) =>
                /\ exit_code # 1
                /\ Len(dest.mac) = 0
                /\ Len(dest.adr) = 0
                /\ dest.net = (IF InRange(args.dnet) THEN args.dnet ELSE 65535)
        /\ Len(dest.adr) # 0 => Len(dest.mac) # 0

\* whois --dnet 5 --dadr 07 sent to network 5 with no station address
C26_Witness ==
    /\ Running("whois")
    /\ Resolved
    /\ args.mac = NoMac /\ args.adr = <<7>> /\ args.dnet = 5
    /\ dest = Addr(5, NoMac, NoMac)
    /\ sent_to = {dest}

---------------------------------------------------------------------------
(* C27: the whois loop loses no frame.  A frame that the receive returned  *)
(* is dispatched once, as the next thing the iteration does, before the    *)
(* error check and both timers: a decodable I-Am is in the table from then *)
(* on, an abort or reject has set Error_Detected.  So an I-Am that comes   *)
(* in the last iteration, the request timer expired and no retry left, is  *)
(* in the report.                                                          *)
Decodable(f) == f.kind = "iam" /\ f.decodes

\* the frame of this iteration has been dispatched
PastDispatch ==
    /\ args.tool = "whois"
    /\ pc \in {"whois_errchk", "whois_dltimer", "whois_apdutimer",
               "whois_print", "exit"}
    /\ pdu_len # 0

Reported(f) ==
    \E i \in 1..Len(report.rows) :
        /\ report.rows[i].device_id = f.device_id
        /\ report.rows[i].mac = f.src.mac
        /\ report.rows[i].snet = f.src.net

C27_NoFrameLost ==
    /\ [](PastDispatch =>
            /\ Decodable(Rx_Buf) =>
                    HasPair(Address_Table, Rx_Buf.device_id, Rx_Buf.src)
            /\ Rx_Buf.kind \in {"abort", "reject"} => Error_Detected)
    /\ []((PastDispatch /\ pc = "exit" /\ Decodable(Rx_Buf)) => Reported(Rx_Buf))
    /\ [][args'.tool = "whois" =>
            /\ pc = "whois_recv" => pc' = "whois_handle"
            /\ pc' = "whois_handle" => pc = "whois_recv"
            /\ pc = "whois_handle" => pc' = "whois_errchk"
            /\ (Address_Table' # Address_Table \/ Error_Detected' # Error_Detected)
                    => (pc = "whois_handle" /\ pdu_len # 0)
            /\ pc # "whois_recv" => UNCHANGED <<pdu_len, Rx_Buf>>]_vars

\* the only answer of the run came in the iteration that ended the loop on
\* the request timer, and it is in the report
C27_Witness ==
    /\ Finished("whois")
    /\ ~Error_Detected
    /\ retry_count = 0
    /\ pdu_len # 0
    /\ Rx_Buf = IAmFrame(200, 50, AddrB)
    /\ Len(Address_Table) = 1
    /\ apdu_timer = ApduTicks + 1
    /\ Reported(Rx_Buf)

====
